---- MODULE Spec2Model ----
(***************************************************************************)
(* Model of the receive/forward path of pion/webrtc (sgotti fork):         *)
(*   - RTPReceiver (Receive, Read, readRTP, Stop) with its mutex, its two   *)
(*     signalling channels `received` and `closed`, the Track it builds and *)
(*     the two SRTP read streams it opens;                                  *)
(*   - the OnTrack reader loop of the two example programs (single stream   *)
(*     echo and simulcast), which rewrites the SSRC and republishes.        *)
(***************************************************************************)
EXTENDS Integers, Sequences, FiniteSets, TLC

(***************************************************************************)
(* Bounds of the model.                                                     *)
(***************************************************************************)
NumCallers == 2      \* goroutines calling Receive / Stop
NumReaders == 2      \* goroutines calling Read / readRTP
MaxEncodings == 2    \* longest encoding list handed to Receive
MaxPackets == 2      \* packets a reader loop reads before the model stops it

Callers == 1..NumCallers
Readers == (NumCallers + 1)..(NumCallers + NumReaders)
Procs   == Callers \cup Readers

(***************************************************************************)
(* RTPReceiveParameters.Encodings: ordered (SSRC, RID) descriptors.  The    *)
(* i-th negotiated encoding carries the i-th RID of the simulcast example.  *)
(***************************************************************************)
RidNames == <<"q", "h", "f", "x", "y">>

SimulcastEncodings(n) == [i \in 1..n |-> [ssrc |-> 110 + i, rid |-> RidNames[i]]]

\* the lists a caller may pass: none, one encoding without RID, or the first
\* n >= 2 simulcast encodings
EncodingLists ==
    {<<>>, <<[ssrc |-> 111, rid |-> ""]>>}
        \cup {SimulcastEncodings(n) : n \in 2..MaxEncodings}

(***************************************************************************)
(* strconv.FormatUint(uint64(ssrc), 10)                                     *)
(***************************************************************************)
Digit(d) == CASE d = 0 -> "0" [] d = 1 -> "1" [] d = 2 -> "2" [] d = 3 -> "3"
              [] d = 4 -> "4" [] d = 5 -> "5" [] d = 6 -> "6" [] d = 7 -> "7"
              [] d = 8 -> "8" [] d = 9 -> "9"

RECURSIVE FormatUint(_)
FormatUint(n) == IF n < 10 THEN Digit(n) ELSE FormatUint(n \div 10) \o Digit(n % 10)

(***************************************************************************)
(* Values of the receiver's fields.                                         *)
(***************************************************************************)
\* a nil *TrackRTPStream slot of track.streams
NilLayer == [nil |-> TRUE, id |-> "", rid |-> "", ssrc |-> 0, ready |-> FALSE]

\* &TrackRTPStream{id, rid, ssrc, track}
NewLayer(enc) ==
    [nil |-> FALSE, id |-> FormatUint(enc.ssrc), rid |-> enc.rid,
     ssrc |-> enc.ssrc, ready |-> FALSE]

\* r.track == nil
NoTrack == [set |-> FALSE, streams |-> <<>>, multiStream |-> FALSE]

\* r.rtpReadStream / r.rtcpReadStream == nil
NoStream == [state |-> "nil", ssrc |-> 0]

OpenStream(ssrc) == [state |-> "open", ssrc |-> ssrc]

VARIABLES
    mu,              \* r.mu: 0 when unlocked, else the goroutine holding Lock
    received,        \* r.received is closed
    closed,          \* r.closed is closed
    track,           \* r.track
    rtpReadStream,   \* r.rtpReadStream
    rtcpReadStream,  \* r.rtcpReadStream
    pc,              \* position of every goroutine
    parameters,      \* Encodings argument of a caller's Receive call
    ret,             \* value the current / last call of a goroutine returns
    nReceiveOK,      \* history: Receive calls that returned nil (capped)
    receiveDone,     \* history: a Receive call with encodings has returned
    stopOK,          \* history: a Stop call has returned nil
    receiveFailed,   \* history: a Receive call has returned a transport error
    program,         \* which example runs the reader loop: "echo" or "simulcast"
    layerRid,        \* rid := inStream.RID() of the loop's layer
    outputTracks,    \* outputTracks: RID -> SSRC of the output track
    fpc,             \* position of the reader loop
    packet,          \* the loop's `packet`
    readErr,         \* the error the last ReadRTP returned is non-nil
    inbound,         \* history: SSRC the current packet had when it was read
    written,         \* history: the WriteRTP calls made, in order
    nRead,           \* history: ReadRTP calls made
    fatal,           \* why the loop panicked, "none" while it has not
    period,          \* seconds given to time.NewTicker by the feedback goroutine
    layerSSRC,       \* inStream.SSRC() of the feedback goroutine's layer
    spc,             \* position of the feedback goroutine
    sec,             \* seconds elapsed since the ticker last fired
    tickC,           \* ticks buffered in ticker.C (capacity 1)
    tickLog,         \* history: WriteRTCP calls made since the last tick was taken
    sendFailed       \* history: a WriteRTCP call of the goroutine returned an error

receiverVars == <<mu, received, closed, track, rtpReadStream, rtcpReadStream>>
historyVars  == <<nReceiveOK, receiveDone, stopOK, receiveFailed>>
forwarderVars == <<program, layerRid, outputTracks, fpc, packet, readErr,
                   inbound, written, nRead, fatal>>
feedbackVars == <<period, layerSSRC, spc, sec, tickC, tickLog, sendFailed>>

vars == <<mu, received, closed, track, rtpReadStream, rtcpReadStream,
          pc, parameters, ret,
          nReceiveOK, receiveDone, stopOK, receiveFailed,
          program, layerRid, outputTracks, fpc, packet, readErr,
          inbound, written, nRead, fatal,
          feedbackVars>>

\* NewRTPReceiver, and no goroutine has called anything yet
ReceiverInit ==
    /\ mu = 0
    /\ received = FALSE
    /\ closed = FALSE
    /\ track = NoTrack
    /\ rtpReadStream = NoStream
    /\ rtcpReadStream = NoStream
    /\ pc = [p \in Procs |-> "idle"]
    /\ parameters = [p \in Callers |-> <<>>]
    /\ ret = [p \in Procs |-> "none"]
    /\ nReceiveOK = 0
    /\ receiveDone = FALSE
    /\ stopOK = FALSE
    /\ receiveFailed = FALSE

(***************************************************************************)
(* RTPReceiver.Receive                                                      *)
(***************************************************************************)
\* select { case <-r.received: ... default: }
HaveReceived == received

\* r.mu.Lock() on entry of Receive; the caller passes its parameters
ReceiveLock(p) ==
    /\ pc[p] = "idle"
    /\ mu = 0
    /\ \E encodings \in EncodingLists :
          parameters' = [parameters EXCEPT ![p] = encodings]
    /\ mu' = p
    /\ pc' = [pc EXCEPT ![p] = "rcv_check"]
    /\ UNCHANGED <<received, closed, track, rtpReadStream, rtcpReadStream,
                   ret, historyVars, forwarderVars, feedbackVars>>

\* mutants of ReceiveCheck: the `received` select is missing; the deferred
\* close is registered before the length check
ReceiveCheck_IgnoreLatch(p) ==
    /\ pc[p] = "rcv_check"
    /\ IF Len(parameters[p]) = 0
         THEN /\ ret' = [ret EXCEPT ![p] = "InvalidArgument"]
              /\ pc' = [pc EXCEPT ![p] = "rcv_unlock"]
         ELSE /\ ret' = ret
              /\ pc' = [pc EXCEPT ![p] = "rcv_track"]
    /\ UNCHANGED <<receiverVars, parameters, historyVars,
                   forwarderVars, feedbackVars>>

ReceiveCheck_DeferFirst(p) ==
    /\ pc[p] = "rcv_check"
    /\ IF Len(parameters[p]) = 0
         THEN /\ ret' = [ret EXCEPT ![p] = "InvalidArgument"]
              /\ pc' = [pc EXCEPT ![p] = "rcv_defer"]
         ELSE IF HaveReceived
         THEN /\ ret' = [ret EXCEPT ![p] = "AlreadyReceiving"]
              /\ pc' = [pc EXCEPT ![p] = "rcv_defer"]
         ELSE /\ ret' = ret
              /\ pc' = [pc EXCEPT ![p] = "rcv_track"]
    /\ UNCHANGED <<receiverVars, parameters, historyVars,
                   forwarderVars, feedbackVars>>

\* the two argument/lifecycle checks, then `defer close(r.received)`
ReceiveCheck(p) ==
    /\ pc[p] = "rcv_check"
    /\ IF Len(parameters[p]) = 0
         THEN /\ ret' = [ret EXCEPT ![p] = "InvalidArgument"]
              /\ pc' = [pc EXCEPT ![p] = "rcv_unlock"]
         ELSE IF HaveReceived
         THEN /\ ret' = [ret EXCEPT ![p] = "AlreadyReceiving"]
              /\ pc' = [pc EXCEPT ![p] = "rcv_unlock"]
         ELSE /\ ret' = ret
              /\ pc' = [pc EXCEPT ![p] = "rcv_track"]
    /\ UNCHANGED <<receiverVars, parameters, historyVars,
                   forwarderVars, feedbackVars>>

\* one iteration of `for i, enc := range parameters.Encodings`
LoopBody(streams, i, enc) ==
    [[streams EXCEPT ![i] = NewLayer(enc)] EXCEPT ![1].ssrc = enc.ssrc]

\* make([]*TrackRTPStream, n) followed by the loop, which breaks after i = 0
BuildStreams(encodings) ==
    LoopBody([i \in 1..Len(encodings) |-> NilLayer], 1, encodings[1])

\* r.track = &Track{...} and the stream loop
ReceiveTrack(p) ==
    /\ pc[p] = "rcv_track"
    /\ track' = [set |-> TRUE,
                 streams |-> BuildStreams(parameters[p]),
                 multiStream |-> Len(parameters[p]) > 1]
    /\ pc' = [pc EXCEPT ![p] = "rcv_rtp"]
    /\ UNCHANGED <<mu, received, closed, rtpReadStream, rtcpReadStream,
                   parameters, ret, historyVars,
                   forwarderVars, feedbackVars>>

\* getSRTPSession and srtpSession.OpenReadStream(Encodings[0].SSRC)
ReceiveOpenRTP(p) ==
    /\ pc[p] = "rcv_rtp"
    /\ \E outcome \in {"ok", "sessionErr", "openErr"} :
          CASE outcome = "ok" ->
                 /\ rtpReadStream' = OpenStream(parameters[p][1].ssrc)
                 /\ ret' = ret
                 /\ pc' = [pc EXCEPT ![p] = "rcv_rtcp"]
            [] outcome = "sessionErr" ->
                 /\ rtpReadStream' = rtpReadStream
                 /\ ret' = [ret EXCEPT ![p] = "TransportError"]
                 /\ pc' = [pc EXCEPT ![p] = "rcv_defer"]
            [] outcome = "openErr" ->
                 /\ rtpReadStream' = NoStream
                 /\ ret' = [ret EXCEPT ![p] = "TransportError"]
                 /\ pc' = [pc EXCEPT ![p] = "rcv_defer"]
    /\ UNCHANGED <<mu, received, closed, track, rtcpReadStream,
                   parameters, historyVars, forwarderVars, feedbackVars>>

\* mutant of ReceiveOpenRTCP: the error of opening the control stream is
\* dropped and Receive goes on
ReceiveOpenRTCP_IgnoreError(p) ==
    /\ pc[p] = "rcv_rtcp"
    /\ \E outcome \in {"ok", "sessionErr", "openErr"} :
          /\ rtcpReadStream' = IF outcome = "ok"
                                 THEN OpenStream(parameters[p][1].ssrc)
                                 ELSE rtcpReadStream
          /\ ret' = ret
          /\ pc' = [pc EXCEPT ![p] = "rcv_ready"]
    /\ UNCHANGED <<mu, received, closed, track, rtpReadStream,
                   parameters, historyVars, forwarderVars, feedbackVars>>

\* getSRTCPSession and srtcpSession.OpenReadStream(Encodings[0].SSRC)
ReceiveOpenRTCP(p) ==
    /\ pc[p] = "rcv_rtcp"
    /\ \E outcome \in {"ok", "sessionErr", "openErr"} :
          CASE outcome = "ok" ->
                 /\ rtcpReadStream' = OpenStream(parameters[p][1].ssrc)
                 /\ ret' = ret
                 /\ pc' = [pc EXCEPT ![p] = "rcv_ready"]
            [] outcome = "sessionErr" ->
                 /\ rtcpReadStream' = rtcpReadStream
                 /\ ret' = [ret EXCEPT ![p] = "TransportError"]
                 /\ pc' = [pc EXCEPT ![p] = "rcv_defer"]
            [] outcome = "openErr" ->
                 /\ rtcpReadStream' = NoStream
                 /\ ret' = [ret EXCEPT ![p] = "TransportError"]
                 /\ pc' = [pc EXCEPT ![p] = "rcv_defer"]
    /\ UNCHANGED <<mu, received, closed, track, rtpReadStream,
                   parameters, historyVars, forwarderVars, feedbackVars>>

\* r.track.streams[0].ready = true; return nil
ReceiveReady(p) ==
    /\ pc[p] = "rcv_ready"
    /\ track' = [track EXCEPT !.streams[1].ready = TRUE]
    /\ ret' = [ret EXCEPT ![p] = "ok"]
    /\ pc' = [pc EXCEPT ![p] = "rcv_defer"]
    /\ UNCHANGED <<mu, received, closed, rtpReadStream, rtcpReadStream,
                   parameters, historyVars, forwarderVars, feedbackVars>>

\* mutant of ReceiveDefer: the latch is signalled only when Receive succeeds
ReceiveDefer_OnlyOnSuccess(p) ==
    /\ pc[p] = "rcv_defer"
    /\ received' = (received \/ ret[p] = "ok")
    /\ ret' = ret
    /\ pc' = [pc EXCEPT ![p] = "rcv_unlock"]
    /\ UNCHANGED <<mu, closed, track, rtpReadStream, rtcpReadStream,
                   parameters, historyVars, forwarderVars, feedbackVars>>

\* the deferred close(r.received); closing a closed channel panics
ReceiveDefer(p) ==
    /\ pc[p] = "rcv_defer"
    /\ received' = TRUE
    /\ ret' = [ret EXCEPT ![p] = IF received THEN "panic" ELSE @]
    /\ pc' = [pc EXCEPT ![p] = "rcv_unlock"]
    /\ UNCHANGED <<mu, closed, track, rtpReadStream, rtcpReadStream,
                   parameters, historyVars, forwarderVars, feedbackVars>>

\* the deferred r.mu.Unlock(); Receive returns ret[p]
ReceiveUnlock(p) ==
    /\ pc[p] = "rcv_unlock"
    /\ mu' = 0
    /\ pc' = [pc EXCEPT ![p] = "idle"]
    /\ parameters' = [parameters EXCEPT ![p] = <<>>]
    /\ nReceiveOK' = IF ret[p] = "ok" /\ nReceiveOK < 2
                       THEN nReceiveOK + 1 ELSE nReceiveOK
    /\ receiveDone' = (receiveDone \/ Len(parameters[p]) > 0)
    /\ receiveFailed' = (receiveFailed \/ ret[p] = "TransportError")
    /\ ret' = [ret EXCEPT ![p] = "none"]
    /\ UNCHANGED <<received, closed, track, rtpReadStream, rtcpReadStream,
                   stopOK, forwarderVars, feedbackVars>>

(***************************************************************************)
(* RTPReceiver.Stop                                                         *)
(***************************************************************************)
\* select { case <-r.closed: ... default: }
IsClosed == closed

\* (*ReadStreamSRTP).Close / (*ReadStreamSRTCP).Close that returned nil
CloseStream(stream) == [stream EXCEPT !.state = "closed"]

\* mutant of StopLock: Stop enters its body without waiting for the mutex
StopLock_NoMutex(p) ==
    /\ pc[p] = "idle"
    /\ mu' = p
    /\ pc' = [pc EXCEPT ![p] = "stop_check"]
    /\ UNCHANGED <<received, closed, track, rtpReadStream, rtcpReadStream,
                   parameters, ret, historyVars,
                   forwarderVars, feedbackVars>>

\* r.mu.Lock() on entry of Stop
StopLock(p) ==
    /\ pc[p] = "idle"
    /\ mu = 0
    /\ mu' = p
    /\ pc' = [pc EXCEPT ![p] = "stop_check"]
    /\ UNCHANGED <<received, closed, track, rtpReadStream, rtcpReadStream,
                   parameters, ret, historyVars,
                   forwarderVars, feedbackVars>>

\* mutant of StopCheck: the `closed` select is missing
StopCheck_NoClosedCheck(p) ==
    /\ pc[p] = "stop_check"
    /\ ret' = ret
    /\ pc' = [pc EXCEPT ![p] =
                IF HaveReceived THEN "stop_rtcp" ELSE "stop_close"]
    /\ UNCHANGED <<receiverVars, parameters, historyVars,
                   forwarderVars, feedbackVars>>

\* the two selects: already closed -> return nil; received -> close streams
StopCheck(p) ==
    /\ pc[p] = "stop_check"
    /\ IF IsClosed
         THEN /\ ret' = [ret EXCEPT ![p] = "ok"]
              /\ pc' = [pc EXCEPT ![p] = "stop_unlock"]
         ELSE /\ ret' = ret
              /\ pc' = [pc EXCEPT ![p] =
                          IF HaveReceived THEN "stop_rtcp" ELSE "stop_close"]
    /\ UNCHANGED <<receiverVars, parameters, historyVars,
                   forwarderVars, feedbackVars>>

\* mutant of StopCloseRTCP: a failed Close of the control stream is remembered
\* but the RTP stream is closed all the same
StopCloseRTCP_BestEffort(p) ==
    /\ pc[p] = "stop_rtcp"
    /\ IF rtcpReadStream.state = "nil"
         THEN /\ pc' = [pc EXCEPT ![p] = "stop_rtp"]
              /\ UNCHANGED <<rtcpReadStream, ret>>
         ELSE \E ok \in BOOLEAN :
                /\ rtcpReadStream' = IF ok THEN CloseStream(rtcpReadStream)
                                           ELSE rtcpReadStream
                /\ ret' = IF ok THEN ret ELSE [ret EXCEPT ![p] = "IOError"]
                /\ pc' = [pc EXCEPT ![p] = "stop_rtp"]
    /\ UNCHANGED <<mu, received, closed, track, rtpReadStream,
                   parameters, historyVars, forwarderVars, feedbackVars>>

\* if r.rtcpReadStream != nil { if err := r.rtcpReadStream.Close(); ... }
StopCloseRTCP(p) ==
    /\ pc[p] = "stop_rtcp"
    /\ IF rtcpReadStream.state = "nil"
         THEN /\ pc' = [pc EXCEPT ![p] = "stop_rtp"]
              /\ UNCHANGED <<rtcpReadStream, ret>>
         ELSE \E ok \in BOOLEAN :
                IF ok
                  THEN /\ rtcpReadStream' = CloseStream(rtcpReadStream)
                       /\ ret' = ret
                       /\ pc' = [pc EXCEPT ![p] = "stop_rtp"]
                  ELSE /\ rtcpReadStream' = rtcpReadStream
                       /\ ret' = [ret EXCEPT ![p] = "IOError"]
                       /\ pc' = [pc EXCEPT ![p] = "stop_unlock"]
    /\ UNCHANGED <<mu, received, closed, track, rtpReadStream,
                   parameters, historyVars, forwarderVars, feedbackVars>>

\* if r.rtpReadStream != nil { if err := r.rtpReadStream.Close(); ... }
StopCloseRTP(p) ==
    /\ pc[p] = "stop_rtp"
    /\ IF rtpReadStream.state = "nil"
         THEN /\ pc' = [pc EXCEPT ![p] = "stop_close"]
              /\ UNCHANGED <<rtpReadStream, ret>>
         ELSE \E ok \in BOOLEAN :
                IF ok
                  THEN /\ rtpReadStream' = CloseStream(rtpReadStream)
                       /\ ret' = ret
                       /\ pc' = [pc EXCEPT ![p] = "stop_close"]
                  ELSE /\ rtpReadStream' = rtpReadStream
                       /\ ret' = [ret EXCEPT ![p] = "IOError"]
                       /\ pc' = [pc EXCEPT ![p] = "stop_unlock"]
    /\ UNCHANGED <<mu, received, closed, track, rtcpReadStream,
                   parameters, historyVars, forwarderVars, feedbackVars>>

\* close(r.closed); return nil
StopClose(p) ==
    /\ pc[p] = "stop_close"
    /\ closed' = TRUE
    /\ ret' = [ret EXCEPT ![p] = IF closed THEN "panic" ELSE "ok"]
    /\ pc' = [pc EXCEPT ![p] = "stop_unlock"]
    /\ UNCHANGED <<mu, received, track, rtpReadStream, rtcpReadStream,
                   parameters, historyVars, forwarderVars, feedbackVars>>

\* the deferred r.mu.Unlock(); Stop returns ret[p]
StopUnlock(p) ==
    /\ pc[p] = "stop_unlock"
    /\ mu' = 0
    /\ pc' = [pc EXCEPT ![p] = "idle"]
    /\ stopOK' = (stopOK \/ ret[p] = "ok")
    /\ ret' = [ret EXCEPT ![p] = "none"]
    /\ UNCHANGED <<received, closed, track, rtpReadStream, rtcpReadStream,
                   parameters, nReceiveOK, receiveDone, receiveFailed,
                   forwarderVars, feedbackVars>>

(***************************************************************************)
(* RTPReceiver.Read (control) and RTPReceiver.readRTP                       *)
(***************************************************************************)
\* the goroutines reading control data call Read ("rtcp"), the goroutines
\* reading media for the track call readRTP ("rtp")
KindOf(r) == IF (r - NumCallers) % 2 = 1 THEN "rtcp" ELSE "rtp"

\* the stream a reader of kind k reads from
StreamOf(k) == IF k = "rtcp" THEN rtcpReadStream ELSE rtpReadStream

\* a goroutine calls Read or readRTP
ReadCall(r) ==
    /\ pc[r] = "idle"
    /\ pc' = [pc EXCEPT ![r] = "rd_wait"]
    /\ ret' = [ret EXCEPT ![r] = "none"]
    /\ UNCHANGED <<receiverVars, parameters, historyVars, forwarderVars, feedbackVars>>

\* mutants of ReadWait: the reader does not wait for the latch; the latch is
\* a token that the first reader consumes (a send instead of a close)
ReadWait_NoWait(r) ==
    /\ pc[r] = "rd_wait"
    /\ pc' = [pc EXCEPT ![r] = "rd_io"]
    /\ UNCHANGED <<receiverVars, parameters, ret, historyVars,
                   forwarderVars, feedbackVars>>

ReadWait_Consume(r) ==
    /\ pc[r] = "rd_wait"
    /\ received
    /\ received' = FALSE
    /\ pc' = [pc EXCEPT ![r] = "rd_io"]
    /\ UNCHANGED <<mu, closed, track, rtpReadStream, rtcpReadStream,
                   parameters, ret, historyVars,
                   forwarderVars, feedbackVars>>

\* <-r.received
ReadWait(r) ==
    /\ pc[r] = "rd_wait"
    /\ received
    /\ pc' = [pc EXCEPT ![r] = "rd_io"]
    /\ UNCHANGED <<receiverVars, parameters, ret, historyVars,
                   forwarderVars, feedbackVars>>

\* return r.rtcpReadStream.Read(b) / r.rtpReadStream.Read(b):
\* a nil stream is a nil dereference, a closed stream fails, an open stream
\* returns when a datagram arrives
ReadIO(r) ==
    /\ pc[r] = "rd_io"
    /\ LET s == StreamOf(KindOf(r)) IN
         CASE s.state = "nil" ->
                /\ ret' = [ret EXCEPT ![r] = "panic"]
                /\ pc' = [pc EXCEPT ![r] = "crashed"]
           [] s.state = "closed" ->
                /\ ret' = [ret EXCEPT ![r] = "ChannelClosed"]
                /\ pc' = [pc EXCEPT ![r] = "idle"]
           [] s.state = "open" ->
                /\ ret' = [ret EXCEPT ![r] = "data"]
                /\ pc' = [pc EXCEPT ![r] = "idle"]
    /\ UNCHANGED <<receiverVars, parameters, historyVars, forwarderVars, feedbackVars>>


(***************************************************************************)
(* The OnTrack reader loop of the examples: read a packet from the layer,   *)
(* rewrite its SSRC, write it to the output track of the layer's RID.       *)
(***************************************************************************)
\* outputTracks["q"], ["h"], ["f"]
OutputRids == {"q", "h", "f"}

\* rand.Uint32() of the three NewTrack calls
OutputSSRCs == {111, 222}

\* SSRC of the packets the remote peer sends
InboundSSRCs == {111, 112}

\* inStream.RID(): a RID of the map, or one it does not hold
LayerRids == OutputRids \cup {""}

\* a nil *rtp.Packet
NilPacket == [nil |-> TRUE, ssrc |-> 0]

\* `err` of main, which every step before OnTrack left nil (or panicked)
OuterErr == "nil"

ForwarderIdle ==
    /\ program = "echo"
    /\ layerRid = "q"
    /\ outputTracks = [r \in OutputRids |-> 222]
    /\ fpc = "off"
    /\ packet = NilPacket
    /\ readErr = FALSE
    /\ inbound = 0
    /\ written = <<>>
    /\ nRead = 0
    /\ fatal = "none"

\* the goroutine `go func(inStream *webrtc.TrackRTPStream)` starts
ForwarderInit ==
    /\ program \in {"echo", "simulcast"}
    /\ layerRid \in LayerRids
    /\ outputTracks \in [OutputRids -> OutputSSRCs]
    /\ fpc = "read"
    /\ packet = NilPacket
    /\ readErr = FALSE
    /\ inbound = 0
    /\ written = <<>>
    /\ nRead = 0
    /\ fatal = "none"

\* time.NewTicker(1 * time.Second) of the echo example
EchoPeriod == 1

\* time.NewTicker(3 * time.Second) of the simulcast example
SimulcastPeriod == 3

\* Bitrate of the ReceiverEstimatedMaximumBitrate both examples send
RembBitrate == 10000000

\* no feedback goroutine has been started
FeedbackIdle ==
    /\ period = EchoPeriod
    /\ layerSSRC = 111
    /\ spc = "off"
    /\ sec = 0
    /\ tickC = 0
    /\ tickLog = <<>>
    /\ sendFailed = FALSE

\* the inner `go func()` starts: ticker := time.NewTicker(...)
FeedbackInit ==
    /\ period \in {EchoPeriod, SimulcastPeriod}
    /\ layerSSRC \in InboundSSRCs
    /\ spc = "wait"
    /\ sec = 0
    /\ tickC = 0
    /\ tickLog = <<>>
    /\ sendFailed = FALSE

Init == ReceiverInit /\ ForwarderIdle /\ FeedbackIdle

procVars == <<pc, parameters, ret>>

\* packet, err := inStream.ReadRTP()
FwdRead ==
    /\ fpc = "read"
    /\ nRead < MaxPackets
    /\ nRead' = nRead + 1
    /\ \/ \E ssrc \in InboundSSRCs :
            /\ packet' = [nil |-> FALSE, ssrc |-> ssrc]
            /\ inbound' = ssrc
            /\ readErr' = FALSE
       \/ /\ packet' \in {NilPacket} \cup
                         {[nil |-> FALSE, ssrc |-> ssrc] : ssrc \in InboundSSRCs}
          /\ inbound' = packet'.ssrc
          /\ readErr' = TRUE
    /\ fpc' = "check"
    /\ UNCHANGED <<receiverVars, procVars, historyVars, feedbackVars,
                   program, layerRid, outputTracks, written, fatal>>

\* echo:      if err != nil { panic(err) }       (err is the read's error)
\* simulcast: if err != nil { panic(readErr) }   (err is main's err)
FwdCheck ==
    /\ fpc = "check"
    /\ LET failed == IF program = "echo" THEN readErr ELSE OuterErr # "nil" IN
         IF failed
           THEN fpc' = "panicked" /\ fatal' = "read"
           ELSE fpc' = "rewrite" /\ fatal' = fatal
    /\ UNCHANGED <<receiverVars, procVars, historyVars, feedbackVars, program, layerRid,
                   outputTracks, packet, readErr, inbound, written, nRead>>

\* mutant of FwdRewrite: the SSRC field is left as it was read
FwdRewrite_KeepSSRC ==
    /\ fpc = "rewrite"
    /\ IF layerRid \notin DOMAIN outputTracks \/ packet.nil
         THEN fpc' = "panicked" /\ fatal' = "nilderef" /\ packet' = packet
         ELSE fpc' = "write" /\ fatal' = fatal /\ packet' = packet
    /\ UNCHANGED <<receiverVars, procVars, historyVars, feedbackVars, program, layerRid,
                   outputTracks, readErr, inbound, written, nRead>>

\* packet.SSRC = outputTracks[rid].SSRC(); a RID the map does not hold gives
\* a nil *Track, and a nil packet cannot be assigned to: both dereference nil
FwdRewrite ==
    /\ fpc = "rewrite"
    /\ IF layerRid \notin DOMAIN outputTracks \/ packet.nil
         THEN fpc' = "panicked" /\ fatal' = "nilderef" /\ packet' = packet
         ELSE /\ fpc' = "write" /\ fatal' = fatal
              /\ packet' = [packet EXCEPT !.ssrc = outputTracks[layerRid]]
    /\ UNCHANGED <<receiverVars, procVars, historyVars, feedbackVars, program, layerRid,
                   outputTracks, readErr, inbound, written, nRead>>

\* outcomes of (*Track).WriteRTP
WriteErrors == {"nil", "ErrClosedPipe", "Other"}

\* the WriteRTP call on outputTracks[rid], as the history records it
WriteCall(werr) ==
    [to |-> layerRid, ssrc |-> packet.ssrc, inbound |-> inbound, err |-> werr]

\* mutant of FwdWrite: every write error panics
FwdWrite_AnyErrorFatal ==
    /\ fpc = "write"
    /\ \E werr \in WriteErrors :
          /\ written' = Append(written, WriteCall(werr))
          /\ IF werr # "nil"
               THEN fpc' = "panicked" /\ fatal' = "write"
               ELSE fpc' = "read" /\ fatal' = fatal
    /\ UNCHANGED <<receiverVars, procVars, historyVars, feedbackVars, program, layerRid,
                   outputTracks, packet, readErr, inbound, nRead>>

\* if err := outputTracks[rid].WriteRTP(packet);
\*    err != nil && err != io.ErrClosedPipe { panic(err) }
FwdWrite ==
    /\ fpc = "write"
    /\ \E werr \in WriteErrors :
          /\ written' = Append(written, WriteCall(werr))
          /\ IF werr # "nil" /\ werr # "ErrClosedPipe"
               THEN fpc' = "panicked" /\ fatal' = "write"
               ELSE fpc' = "read" /\ fatal' = fatal
    /\ UNCHANGED <<receiverVars, procVars, historyVars, feedbackVars, program, layerRid,
                   outputTracks, packet, readErr, inbound, nRead>>

ForwarderNext == FwdRead \/ FwdCheck \/ FwdRewrite \/ FwdWrite

\* a new receiver nobody has called, and a reader loop that starts
ForwarderSpecInit == ReceiverInit /\ ForwarderInit /\ FeedbackIdle

ForwarderSpec == ForwarderSpecInit /\ [][ForwarderNext]_vars

(***************************************************************************)
(* The feedback goroutine of both examples: on every tick of its ticker it  *)
(* writes a PictureLossIndication and then a                                *)
(* ReceiverEstimatedMaximumBitrate, printing any error WriteRTCP returns.   *)
(***************************************************************************)

\* one second passes; the ticker fires every `period` seconds into a channel
\* of capacity 1, dropping the tick when the channel is still full
ClockSecond ==
    /\ spc # "off"
    /\ sec' = (sec + 1) % period
    /\ tickC' = IF sec + 1 = period THEN 1 ELSE tickC
    /\ UNCHANGED <<receiverVars, procVars, historyVars, forwarderVars,
                   period, layerSSRC, spc, tickLog, sendFailed>>

\* mutant of FbkTick: the bandwidth estimate is sent first
FbkTick_RembFirst ==
    /\ spc = "wait"
    /\ tickC = 1
    /\ tickC' = 0
    /\ tickLog' = <<>>
    /\ spc' = "remb"
    /\ UNCHANGED <<receiverVars, procVars, historyVars, forwarderVars,
                   period, layerSSRC, sec, sendFailed>>

\* `for range ticker.C` / `case <-ticker.C:` takes a tick
FbkTick ==
    /\ spc = "wait"
    /\ tickC = 1
    /\ tickC' = 0
    /\ tickLog' = <<>>
    /\ spc' = "pli"
    /\ UNCHANGED <<receiverVars, procVars, historyVars, forwarderVars,
                   period, layerSSRC, sec, sendFailed>>

\* one WriteRTCP call as it is recorded in tickLog
RtcpCall(type, ssrc, bitrate, ok) ==
    [type |-> type, ssrc |-> ssrc, bitrate |-> bitrate, ok |-> ok]

\* mutant of FbkSendPLI: a failed keyframe request ends the goroutine
FbkSendPLI_FatalOnError ==
    /\ spc = "pli"
    /\ \E ok \in BOOLEAN :
          /\ tickLog' = Append(tickLog, RtcpCall("PLI", layerSSRC, 0, ok))
          /\ sendFailed' = (sendFailed \/ ~ok)
          /\ spc' = IF ok THEN "remb" ELSE "dead"
    /\ UNCHANGED <<receiverVars, procVars, historyVars, forwarderVars,
                   period, layerSSRC, sec, tickC>>

\* WriteRTCP(PictureLossIndication{MediaSSRC: inStream.SSRC()}); an error is
\* printed and the goroutine goes on
FbkSendPLI ==
    /\ spc = "pli"
    /\ \E ok \in BOOLEAN :
          /\ tickLog' = Append(tickLog, RtcpCall("PLI", layerSSRC, 0, ok))
          /\ sendFailed' = (sendFailed \/ ~ok)
    /\ spc' = "remb"
    /\ UNCHANGED <<receiverVars, procVars, historyVars, forwarderVars,
                   period, layerSSRC, sec, tickC>>

\* WriteRTCP(ReceiverEstimatedMaximumBitrate{Bitrate: 10000000,
\* SenderSSRC: inStream.SSRC()}); an error is printed and the goroutine waits
\* for the next tick
FbkSendREMB ==
    /\ spc = "remb"
    /\ \E ok \in BOOLEAN :
          /\ tickLog' = Append(tickLog,
                               RtcpCall("REMB", layerSSRC, RembBitrate, ok))
          /\ sendFailed' = (sendFailed \/ ~ok)
    /\ spc' = "wait"
    /\ UNCHANGED <<receiverVars, procVars, historyVars, forwarderVars,
                   period, layerSSRC, sec, tickC>>

FeedbackNext == ClockSecond \/ FbkTick \/ FbkSendPLI \/ FbkSendREMB

\* a new receiver nobody has called, and a feedback goroutine that starts
FeedbackSpecInit == ReceiverInit /\ ForwarderIdle /\ FeedbackInit

FeedbackSpec == FeedbackSpecInit /\ [][FeedbackNext]_vars

\* time passes and the ticker keeps firing; a goroutine that can take a step
\* is eventually scheduled, and WriteRTCP returns
FeedbackFairSpec ==
    /\ FeedbackSpec
    /\ WF_vars(ClockSecond)
    /\ WF_vars(FbkTick)
    /\ WF_vars(FbkSendPLI)
    /\ WF_vars(FbkSendREMB)

(***************************************************************************)
(* The receiver and the goroutines calling it.                              *)
(***************************************************************************)
Next ==
    \/ \E p \in Callers : ReceiveLock(p)
    \/ \E p \in Callers : ReceiveCheck(p)
    \/ \E p \in Callers : ReceiveTrack(p)
    \/ \E p \in Callers : ReceiveOpenRTP(p)
    \/ \E p \in Callers : ReceiveOpenRTCP(p)
    \/ \E p \in Callers : ReceiveReady(p)
    \/ \E p \in Callers : ReceiveDefer(p)
    \/ \E p \in Callers : ReceiveUnlock(p)
    \/ \E p \in Callers : StopLock(p)
    \/ \E p \in Callers : StopCheck(p)
    \/ \E p \in Callers : StopCloseRTCP(p)
    \/ \E p \in Callers : StopCloseRTP(p)
    \/ \E p \in Callers : StopClose(p)
    \/ \E p \in Callers : StopUnlock(p)
    \/ \E r \in Readers : ReadCall(r)
    \/ \E r \in Readers : ReadWait(r)
    \/ \E r \in Readers : ReadIO(r)

Spec == Init /\ [][Next]_vars

(***************************************************************************)
(* Fairness: a goroutine whose receive on r.received is ready is scheduled. *)
(***************************************************************************)
FairSpec == Spec /\ \A r \in Readers : WF_vars(ReadWait(r))

(***************************************************************************)
(* Lifecycle state of the receiver (Created -> Receiving -> Stopped), read  *)
(* off its fields: a receiver with an open read stream is Receiving; one    *)
(* whose `closed` channel is closed and that holds no open stream is        *)
(* Stopped; one whose `received` latch is signalled is Receiving; any other *)
(* is Created.                                                              *)
(***************************************************************************)
StreamsOpen == rtpReadStream.state = "open" \/ rtcpReadStream.state = "open"

LifecycleState ==
    IF StreamsOpen THEN "Receiving"
    ELSE IF closed THEN "Stopped"
    ELSE IF received THEN "Receiving"
    ELSE "Created"

Rank(state) == CASE state = "Created" -> 0
                 [] state = "Receiving" -> 1
                 [] state = "Stopped" -> 2

ReceivePcs == {"rcv_check", "rcv_track", "rcv_rtp", "rcv_rtcp", "rcv_ready",
               "rcv_defer", "rcv_unlock"}
StopPcs == {"stop_check", "stop_rtcp", "stop_rtp", "stop_close", "stop_unlock"}

\* the receiver's fields other than the mutex
ReceiverFields == <<received, closed, track, rtpReadStream, rtcpReadStream>>

(***************************************************************************)
(* C1: Receive succeeds at most once, and every Receive call with a         *)
(* non-empty encoding list that returns after a Receive call with a         *)
(* non-empty list has returned fails with AlreadyReceiving.                 *)
(***************************************************************************)
C1_ReceiveOnce ==
    /\ nReceiveOK <= 1
    /\ \A p \in Callers :
         (pc[p] = "rcv_unlock" /\ Len(parameters[p]) > 0 /\ receiveDone)
            => ret[p] = "AlreadyReceiving"

\* a second Receive is about to return AlreadyReceiving after one succeeded
C1_Witness ==
    \E p \in Callers :
        /\ pc[p] = "rcv_unlock" /\ Len(parameters[p]) > 0
        /\ receiveDone /\ nReceiveOK = 1
        /\ ret[p] = "AlreadyReceiving"

(***************************************************************************)
(* C2: a Receive call with an empty encoding list returns InvalidArgument   *)
(* and none of its steps changes the receiver: the Track, the `received`    *)
(* latch, the `closed` marker and both read streams stay as they were, so   *)
(* a Created receiver stays Created.                                        *)
(***************************************************************************)
C2_EmptyReceiveRejected ==
    /\ [](\A p \in Callers :
            (pc[p] \in ReceivePcs /\ Len(parameters[p]) = 0)
               => /\ pc[p] \in {"rcv_check", "rcv_unlock"}
                  /\ pc[p] = "rcv_unlock" => ret[p] = "InvalidArgument")
    /\ [][\A p \in Callers :
            (pc[p] \in ReceivePcs /\ Len(parameters[p]) = 0 /\ pc'[p] # pc[p])
               => /\ ReceiverFields' = ReceiverFields
                  /\ LifecycleState' = LifecycleState]_vars

\* an empty Receive is about to return InvalidArgument on a Created receiver
C2_Witness ==
    \E p \in Callers :
        /\ pc[p] = "rcv_unlock" /\ Len(parameters[p]) = 0
        /\ ret[p] = "InvalidArgument"
        /\ LifecycleState = "Created" /\ ~track.set /\ ~received

(***************************************************************************)
(* C3: when Receive returns success for N encodings, the Track holds N      *)
(* layers and the i-th layer carries the RID of the i-th encoding.          *)
(***************************************************************************)
C3_LayerPerEncoding ==
    \A p \in Callers :
        (pc[p] = "rcv_unlock" /\ ret[p] = "ok")
           => /\ Len(track.streams) = Len(parameters[p])
              /\ \A i \in 1..Len(parameters[p]) :
                    /\ ~track.streams[i].nil
                    /\ track.streams[i].rid = parameters[p][i].rid

(***************************************************************************)
(* C4 (as amended): once a Stop call has returned success, every later      *)
(* Stop call returns success, closes no stream and changes no field of the  *)
(* receiver.                                                                *)
(***************************************************************************)
C4_StopIdempotentAfterSuccess ==
    /\ [](stopOK =>
            \A p \in Callers :
               /\ pc[p] \notin {"stop_rtcp", "stop_rtp", "stop_close"}
               /\ pc[p] = "stop_unlock" => ret[p] = "ok")
    /\ [][(stopOK /\ \E p \in Callers : pc[p] \in StopPcs /\ pc'[p] # pc[p])
            => ReceiverFields' = ReceiverFields]_vars

\* a Stop call is about to return success after an earlier Stop succeeded
C4_Witness ==
    /\ stopOK
    /\ \E p \in Callers : pc[p] = "stop_unlock" /\ ret[p] = "ok"

(***************************************************************************)
(* C4 (as claimed): in every reachable state a Stop call closes no stream   *)
(* again: it never calls Close on a read stream that an earlier Stop call   *)
(* has closed.                                                              *)
(***************************************************************************)
C4_StopIdempotentAlways ==
    \A p \in Callers :
        /\ pc[p] = "stop_rtcp" => rtcpReadStream.state # "closed"
        /\ pc[p] = "stop_rtp" => rtpReadStream.state # "closed"

(***************************************************************************)
(* C5: the lifecycle state never moves backward along                       *)
(* Created -> Receiving -> Stopped; in particular Stopped is terminal.      *)
(***************************************************************************)
C5_LifecycleMonotonic ==
    [][Rank(LifecycleState') >= Rank(LifecycleState)]_vars

(***************************************************************************)
(* C6: once a Stop call has returned success, no RTP or control read        *)
(* stream of the receiver is open.                                          *)
(***************************************************************************)
C6_NoStreamAfterStop ==
    stopOK => ~StreamsOpen

(***************************************************************************)
(* C7: a Read / readRTP call performs its read on the stream, or returns,   *)
(* only after a Receive call has signalled the `received` latch.            *)
(***************************************************************************)
C7_ReadBlocksUntilReceived ==
    \A r \in Readers :
        (pc[r] \in {"rd_io", "crashed"} \/ ret[r] # "none") => received

\* a reader called before Receive is held at the latch while a Receive call
\* that has opened the RTP stream is still running
C7_Witness ==
    /\ ~received
    /\ \E r \in Readers : pc[r] = "rd_wait"
    /\ \E p \in Callers : pc[p] \in {"rcv_rtcp", "rcv_ready", "rcv_defer"}

(***************************************************************************)
(* C8: the `received` latch never becomes unsignalled again, every reader   *)
(* waiting on a signalled latch is eventually released, and a reader that   *)
(* waits on a signalled latch can pass at once.                             *)
(***************************************************************************)
C8_LatchOneShot ==
    /\ [][received => received']_vars
    /\ \A r \in Readers : (received /\ pc[r] = "rd_wait") ~> (pc[r] # "rd_wait")
    /\ [](\A r \in Readers :
            (received /\ pc[r] = "rd_wait") => ENABLED ReadWait(r))

\* every reader has passed the latch before the Receive call that signalled
\* it has even returned
C8_Witness ==
    /\ received
    /\ \E p \in Callers : pc[p] = "rcv_unlock" /\ Len(parameters[p]) > 0
    /\ \A r \in Readers : pc[r] = "rd_io"

(***************************************************************************)
(* C9: every WriteRTP call of the reader loop goes to the output track      *)
(* mapped from the layer's RID, and the packet it passes bears that output  *)
(* track's SSRC: the SSRC it was read with survives only where the output   *)
(* track's SSRC is that same number.                                        *)
(***************************************************************************)
C9_ForwardedBearsOutputSSRC ==
    \A i \in 1..Len(written) :
        /\ layerRid \in DOMAIN outputTracks
        /\ written[i].to = layerRid
        /\ written[i].ssrc = outputTracks[written[i].to]
        /\ written[i].inbound # outputTracks[written[i].to]
              => written[i].ssrc # written[i].inbound

\* a packet read with one SSRC was written with the output track's other SSRC
C9_Witness ==
    \E i \in 1..Len(written) :
        /\ written[i].err = "nil"
        /\ written[i].inbound \in InboundSSRCs
        /\ written[i].inbound # written[i].ssrc
        /\ written[i].ssrc = outputTracks[layerRid]

(***************************************************************************)
(* C10: a WriteRTP that fails with io.ErrClosedPipe does not panic and the  *)
(* loop goes on to the next packet; a WriteRTP that fails with any other    *)
(* error panics, which ends the loop.                                       *)
(***************************************************************************)
C10_ClosedPipeSwallowed ==
    /\ \A i \in 1..(Len(written) - 1) : written[i].err # "Other"
    /\ (Len(written) > 0 /\ written[Len(written)].err = "Other")
          => (fpc = "panicked" /\ fatal = "write")
    /\ fatal = "write"
          => (Len(written) > 0 /\ written[Len(written)].err = "Other")
    /\ (Len(written) > 0 /\ written[Len(written)].err = "ErrClosedPipe"
          /\ fatal = "none")
          => fpc \in {"read", "check", "rewrite", "write"}

\* the loop wrote a further packet after a write that failed with ErrClosedPipe
C10_Witness ==
    \E i \in 1..(Len(written) - 1) : written[i].err = "ErrClosedPipe"

(***************************************************************************)
(* C11: a Receive call whose RTP or control stream cannot be opened returns *)
(* the transport error; once such a call has returned, no layer is ever     *)
(* marked ready and every later Receive call fails.                         *)
(***************************************************************************)
LayerReady == \E i \in 1..Len(track.streams) : track.streams[i].ready

C11_TransportFailureIsFinal ==
    /\ \A p \in Callers :
         (pc[p] \in {"rcv_defer", "rcv_unlock"} /\ Len(parameters[p]) > 0
            /\ ~receiveDone
            /\ (rtpReadStream.state = "nil" \/ rtcpReadStream.state = "nil"))
            => (ret[p] = "TransportError" /\ ~LayerReady)
    /\ receiveFailed
         => /\ ~LayerReady
            /\ nReceiveOK = 0
            /\ \A p \in Callers :
                  /\ pc[p] \notin {"rcv_track", "rcv_rtp", "rcv_rtcp", "rcv_ready"}
                  /\ pc[p] = "rcv_unlock"
                       => ret[p] \in {"InvalidArgument", "AlreadyReceiving"}

\* after a Receive call failed on the transport, a retry with encodings is
\* about to return AlreadyReceiving
C11_Witness ==
    /\ receiveFailed
    /\ \E p \in Callers :
          /\ pc[p] = "rcv_unlock" /\ Len(parameters[p]) > 0
          /\ ret[p] = "AlreadyReceiving"

(***************************************************************************)
(* C12: within every tick of a layer's feedback goroutine the keyframe      *)
(* request is sent before the bandwidth estimate, exactly one of each is    *)
(* attempted, and both carry that layer's SSRC.                             *)
(***************************************************************************)
TickComplete ==
    /\ Len(tickLog) = 2
    /\ tickLog[1].type = "PLI"
    /\ tickLog[2].type = "REMB"

C12_PliThenRembPerTick ==
    /\ \A i \in 1..Len(tickLog) : tickLog[i].ssrc = layerSSRC
    /\ spc = "pli" => tickLog = <<>>
    /\ spc = "remb" => (Len(tickLog) = 1 /\ tickLog[1].type = "PLI")
    /\ spc = "wait" => (tickLog = <<>> \/ TickComplete)
    /\ spc \in {"off", "wait", "pli", "remb"}

\* a tick has been served and the ticker has fired again
C12_Witness == spc = "wait" /\ TickComplete /\ tickC = 1

(***************************************************************************)
(* C17: a WriteRTCP error does not end the feedback goroutine: after a      *)
(* failed keyframe request the bandwidth estimate of the same tick is still *)
(* attempted, and once a send has failed, ticks keep being taken and each   *)
(* is served with both messages.                                            *)
(***************************************************************************)
C17_SendFailureNotFatal ==
    /\ [][(spc = "pli" /\ tickLog' # tickLog)
              => (spc' = "remb" /\ Len(tickLog') = 1)]_vars
    /\ [](spc \in {"wait", "pli", "remb"})
    /\ sendFailed ~> (spc = "pli")
    /\ (sendFailed /\ spc = "pli") ~> (spc = "wait" /\ TickComplete)

\* after an earlier failure a later tick was served and both sends succeeded
C17_Witness ==
    /\ sendFailed
    /\ spc = "wait"
    /\ TickComplete
    /\ tickLog[1].ok /\ tickLog[2].ok

(***************************************************************************)
(* C13: every Read or readRTP call that is blocked when a Stop call         *)
(* completes successfully eventually returns with a failure, whether it is  *)
(* blocked in the stream read or still waits for `received`.                *)
(***************************************************************************)

\* a read of a stream that is closed (or was never opened) does not block
ReadFail(r) == ReadIO(r) /\ StreamOf(KindOf(r)).state # "open"

\* a reader that can pass the latch is eventually scheduled, and a read that
\* cannot block returns; nobody is obliged to call Receive or Stop, and data
\* need not arrive on an open stream
StopFairSpec ==
    /\ Spec
    /\ \A r \in Readers : WF_vars(ReadWait(r)) /\ WF_vars(ReadFail(r))

StopReturnsOK == \E p \in Callers : pc[p] = "stop_unlock" /\ ret[p] = "ok"

C13_BlockedReadsFailAfterStop ==
    \A r \in Readers :
        (StopReturnsOK /\ pc[r] \in {"rd_wait", "rd_io"})
            ~> (pc[r] = "idle" /\ ret[r] = "ChannelClosed")

(***************************************************************************)
(* C14: the RTP stream is never closed while the control stream is still    *)
(* open, and the closed marker is never set while a stream Receive opened   *)
(* is still open.                                                           *)
(***************************************************************************)
C14_CloseOrder ==
    /\ rtpReadStream.state = "closed" => rtcpReadStream.state # "open"
    /\ closed => ~StreamsOpen

(***************************************************************************)
(* C15: a Stop call in which a stream's Close fails returns that error at   *)
(* once: it closes nothing after the failure (the RTP stream is still open  *)
(* when the error is returned) and it does not set the closed marker.       *)
(***************************************************************************)
C15_StopErrorAborts ==
    /\ [](\A p \in Callers :
            (pc[p] = "stop_unlock" /\ ret[p] = "IOError")
               => (~closed /\ rtpReadStream.state = "open"))
    /\ [][\A p \in Callers :
            (pc[p] \in {"stop_rtcp", "stop_rtp"} /\ ret'[p] = "IOError")
               => /\ pc'[p] = "stop_unlock"
                  /\ closed' = closed
                  /\ rtpReadStream' = rtpReadStream
                  /\ rtcpReadStream' = rtcpReadStream]_vars

\* a Stop call after one that failed closing the RTP stream is about to call
\* Close again on the control stream
C15_Witness ==
    \E p \in Callers :
        pc[p] = "stop_rtcp" /\ rtcpReadStream.state = "closed" /\ ~closed

(***************************************************************************)
(* C16: in the reader loop a ReadRTP error is fatal: the loop panics with   *)
(* that error and never goes on to rewrite or write the result of the       *)
(* failed read, in the echo loop and in the simulcast loop alike.           *)
(***************************************************************************)
C16_ReadErrorFatal ==
    (readErr /\ fpc # "check") => (fpc = "panicked" /\ fatal = "read")

(***************************************************************************)
(* C18: a Receive call that succeeds has opened one RTP and one control     *)
(* read stream, both for the SSRC of the first encoding, and has marked the *)
(* first layer and no other ready; a stream is opened only when none was    *)
(* opened before; a layer is ready only if both streams were opened.        *)
(***************************************************************************)
C18_SuccessfulReceiveBinding ==
    /\ [](\A p \in Callers :
            (pc[p] = "rcv_unlock" /\ ret[p] = "ok")
               => /\ rtpReadStream = OpenStream(parameters[p][1].ssrc)
                  /\ rtcpReadStream = OpenStream(parameters[p][1].ssrc)
                  /\ Len(track.streams) = Len(parameters[p])
                  /\ \A i \in 1..Len(track.streams) :
                        track.streams[i].ready <=> (i = 1))
    /\ [](LayerReady => /\ rtpReadStream.state # "nil"
                        /\ rtcpReadStream.state # "nil")
    /\ [][/\ rtpReadStream'.state = "open" /\ rtpReadStream' # rtpReadStream
             => rtpReadStream.state = "nil"
          /\ rtcpReadStream'.state = "open" /\ rtcpReadStream' # rtcpReadStream
             => rtcpReadStream.state = "nil"]_vars

\* a Receive call with several encodings is about to return nil
C18_Witness ==
    \E p \in Callers :
        pc[p] = "rcv_unlock" /\ ret[p] = "ok" /\ Len(parameters[p]) > 1

(***************************************************************************)
(* C19: however Receive and Stop calls of several goroutines interleave,    *)
(* `received` and `closed` are each closed at most once (no call panics on  *)
(* closing a closed channel) and at most one call is inside a body.         *)
(***************************************************************************)
InBody(p) == pc[p] \in ReceivePcs \cup StopPcs

C19_NoDoubleCloseNoOverlap ==
    /\ [](\A p \in Callers : ret[p] # "panic")
    /\ [](\A p, q \in Callers : (InBody(p) /\ InBody(q)) => p = q)
    /\ [](\A p \in Callers : InBody(p) <=> mu = p)
    /\ [][/\ received' # received => (~received /\ received')
          /\ closed' # closed => (~closed /\ closed')
          /\ \A p \in Callers :
                (pc[p] = "rcv_defer" /\ pc'[p] # "rcv_defer") => ~received
          /\ \A p \in Callers :
                (pc[p] = "stop_close" /\ pc'[p] # "stop_close") => ~closed]_vars

\* both channels have been closed and a further call holds the mutex
C19_Witness ==
    /\ received /\ closed
    /\ \E p \in Callers : InBody(p)

(***************************************************************************)
(* C20: whenever `received` is signalled both stream handles have been set  *)
(* by Receive, so a reader released by the latch never reads from a stream  *)
(* that was never opened.                                                   *)
(***************************************************************************)
C20_ReceivedImpliesStreams ==
    /\ received => (rtpReadStream.state # "nil" /\ rtcpReadStream.state # "nil")
    /\ \A r \in Readers : pc[r] # "crashed"

====
